---- MODULE Spec2Model ----
(***************************************************************************)
(* Model of scripts/update_repos.py: the GitHub search fetcher             *)
(* (search_repositories), the record formatter (format_repo_data), the     *)
(* snapshot writer (save_json) and the orchestrator (main).                *)
(*                                                                         *)
(* Four specifications share the variables:                                *)
(*   Spec        one run of main()                                         *)
(*   FairSpec    Spec with the fairness of a sequential program            *)
(*   SpecSearch  one call of search_repositories on an arbitrary response  *)
(*   SpecFormat  one call of format_repo_data on an arbitrary raw record   *)
(***************************************************************************)
EXTENDS Integers, Sequences, FiniteSets, TLC

VARIABLES
    pc,              \* position of main()
    exit_status,     \* "running", or how main ended: "success" / "failure"
    json_error,      \* exception class response.json() raises on a non-JSON body
    requests,        \* the GET requests issued so far, in order
    disk,            \* path -> state of the file at that path
    popular_repos,   \* main's local popular_repos
    trending_repos,  \* main's local trending_repos
    new_repos,       \* main's local new_repos
    category_repos,  \* get_category_repos' dict, as an insertion-ordered sequence of pairs
    last,            \* the most recent search_repositories call of the run
    marker,          \* "Error during update" was logged by main's except clause
    summary,         \* "Update completed successfully!" was logged
    call,            \* SpecSearch: arguments and outcome of one search_repositories call
    fmt              \* SpecFormat: arguments and outcome of one format_repo_data call

vars == <<pc, exit_status, json_error, requests, disk, popular_repos, trending_repos, new_repos,
          category_repos, last, marker, summary, call, fmt>>

----------------------------------------------------------------------------
(* Bounds of the environment *)

\* most items a search response carries in a run of main
MaxItems == 2
\* most items the search endpoint returns over a whole run of main
MaxTotalItems == 2
\* longest X-RateLimit-Remaining header value drawn for a single call
MaxHeaderLen == 2
\* most items a search response carries in a single call
MaxCallItems == 1
\* longest affiliate link passed to format_repo_data
MaxLinkLen == 1

----------------------------------------------------------------------------
(* Module constants *)

ASSETS_DIR == "assets"
POPULAR_FILE == "assets/popular.json"
TRENDING_FILE == "assets/trending.json"
NEW_FILE == "assets/new.json"
CATEGORIES_FILE == "assets/categories.json"

Files == {POPULAR_FILE, TRENDING_FILE, NEW_FILE, CATEGORIES_FILE}

\* the CATEGORIES table, in dict order
CATEGORIES == <<
    [name |-> "LLM and Generative AI",
     keywords |-> <<"llm", "large language model", "gpt", "chatbot", "generative-ai">>],
    [name |-> "Machine Learning",
     keywords |-> <<"machine learning", "deep learning", "tensorflow", "pytorch">>],
    [name |-> "Natural Language Processing",
     keywords |-> <<"nlp", "natural language processing", "transformers", "bert">>],
    [name |-> "AI Tools",
     keywords |-> <<"ai tools", "copilot", "ai assistant", "ai agent">>],
    [name |-> "Data Science",
     keywords |-> <<"data science", "jupyter", "pandas", "data analysis">>],
    [name |-> "Computer Vision",
     keywords |-> <<"computer vision", "opencv", "image recognition", "yolo">>],
    [name |-> "MLOps",
     keywords |-> <<"mlops", "ml infrastructure", "model deployment", "mlflow">> ] >>

\* the low-remaining threshold of search_repositories
LowThreshold == 10

----------------------------------------------------------------------------
(* Python values *)

\* Optional[x]: <<>> is None / absent, <<x>> is the value x
None == <<>>
Some(x) == <<x>>

\* truth value of an Optional[str]: None and "" are falsy
Truthy(opt) == opt # None /\ Len(opt[1]) > 0

\* strings that get parsed are sequences of characters
Digits == {"0", "1", "5", "9"}
Chars == Digits \cup {"x"}

DigitVal(c) == CASE c = "0" -> 0 [] c = "1" -> 1 [] c = "5" -> 5 [] c = "9" -> 9

\* int(s) raises ValueError unless s is a decimal numeral
IsInt(s) == Len(s) > 0 /\ \A i \in 1..Len(s) : s[i] \in Digits

RECURSIVE IntOf(_)
IntOf(s) == IF Len(s) = 0 THEN 0
            ELSE 10 * IntOf(SubSeq(s, 1, Len(s) - 1)) + DigitVal(s[Len(s)])

RECURSIVE SeqsUpTo(_, _)
SeqsUpTo(S, n) == IF n = 0 THEN {<<>>}
                  ELSE SeqsUpTo(S, n - 1) \cup
                       {Append(s, x) : s \in {t \in SeqsUpTo(S, n - 1) : Len(t) = n - 1}, x \in S}

RECURSIVE Count(_, _)
Count(s, x) == IF Len(s) = 0 THEN 0
               ELSE (IF s[1] = x THEN 1 ELSE 0) + Count(Tail(s), x)

----------------------------------------------------------------------------
(* format_repo_data *)

\* the nine fields read from a raw record
SourceFields == {"full_name", "html_url", "description", "stargazers_count",
                 "forks_count", "language", "updated_at", "created_at", "topics"}

\* the nine keys of a formatted record
OutputKeys == {"name", "html_url", "description", "stargazers_count",
               "forks_count", "language", "updated_at", "created_at", "topics"}

\* the raw field each output key is read from
SourceOf(k) == IF k = "name" THEN "full_name" ELSE k

\* the default of repo.get(field, default)
DefaultOf(k) == CASE k \in {"stargazers_count", "forks_count"} -> 0
                  [] k = "topics" -> <<>>
                  [] OTHER -> ""

\* {}
EmptyDict == <<>>

\* dict.get(key, default)
Get(d, key, default) == IF key \in DOMAIN d THEN d[key] ELSE default

\* format_repo_data testing "affiliate_link is not None" instead of its truth value
format_repo_data_not_none(repo, affiliate_link) ==
    LET data == [k \in OutputKeys |-> Get(repo, SourceOf(k), DefaultOf(SourceOf(k)))]
    IN  IF affiliate_link # None
        THEN [k \in OutputKeys \cup {"affiliate_link"} |->
                 IF k = "affiliate_link" THEN affiliate_link[1] ELSE data[k]]
        ELSE data

format_repo_data(repo, affiliate_link) ==
    LET data == [k \in OutputKeys |-> Get(repo, SourceOf(k), DefaultOf(SourceOf(k)))]
    IN  IF Truthy(affiliate_link)
        THEN [k \in OutputKeys \cup {"affiliate_link"} |->
                 IF k = "affiliate_link" THEN affiliate_link[1] ELSE data[k]]
        ELSE data

\* [format_repo_data(repo) for repo in repos]
FormatAll(repos) == [i \in 1..Len(repos) |-> format_repo_data(repos[i], None)]

----------------------------------------------------------------------------
(* HTTP responses *)

\* a sample raw value for each field the search endpoint returns
SampleValue(k) == CASE k \in {"stargazers_count", "forks_count"} -> 42
                    [] k = "topics" -> <<"ai">>
                    [] OTHER -> "text"

\* the raw record carrying exactly the fields of S
RawRecord(S) == [k \in S |-> SampleValue(k)]

FullRecord == RawRecord(SourceFields)
SparseRecord == RawRecord({"full_name", "stargazers_count"})

\* response bodies: not JSON at all; JSON that is not an object; a JSON
\* object (data is the decoded dict) with or without the key "items"
NotJson == [kind |-> "not_json", data |-> [text |-> "<html>"]]
NotObject == [kind |-> "not_object", data |-> [list |-> <<>>]]
Object(d) == [kind |-> "object", data |-> d]

Bodies(records, n) ==
    {NotJson, NotObject, Object([total_count |-> 0])}
    \cup {Object([total_count |-> Len(l), items |-> l]) : l \in SeqsUpTo(records, n)}

Statuses == {200, 403, 404, 500}

\* a response to a GET, or the failure to get one (connection error, timeout)
NetworkFailure == [kind |-> "network", status |-> 0, remaining |-> None, body |-> NotJson]

Responses(statuses, headers, bodies) ==
    {[kind |-> "http", status |-> st, remaining |-> h, body |-> b] :
        st \in statuses, h \in headers, b \in bodies}

\* exception classes response.json() can raise on a non-JSON body:
\* requests.exceptions.JSONDecodeError (a RequestException) or a plain ValueError
JsonErrors == {"RequestException", "ValueError"}

\* response.raise_for_status() raises HTTPError for 4xx and 5xx
raise_for_status(status) == 400 <= status /\ status < 600

----------------------------------------------------------------------------
(* search_repositories *)

\* the outcome of a call: what it returned, what it raised, what it logged or
\* waited for, in order
Outcome(result, raised, log) == [result |-> result, raised |-> raised, log |-> log]

\* the request of one call
SearchRequest(query, sort, per_page) ==
    [url |-> "/search/repositories",
     params |-> Some([q |-> query, sort |-> sort, order |-> "desc", per_page |-> per_page])]

\* "if remaining and int(remaining) < 10" once int(remaining) is known to succeed
LowRemaining_below_1(remaining) == Truthy(remaining) /\ IntOf(remaining[1]) < 1

LowRemaining(remaining) == Truthy(remaining) /\ IntOf(remaining[1]) < LowThreshold

\* except HTTPError that re-raises on 403
ExceptHTTPError_raise(status, log) ==
    IF status = 403
    THEN Outcome(<<>>, "HTTPError", log \o <<"rate_limit_exceeded", "response_text">>)
    ELSE Outcome(<<>>, "none", log \o <<"error">>)

\* except requests.exceptions.HTTPError
ExceptHTTPError(status, log) ==
    IF status = 403
    THEN Outcome(<<>>, "none", log \o <<"rate_limit_exceeded", "response_text">>)
    ELSE Outcome(<<>>, "none", log \o <<"error">>)

\* except RequestException that re-raises
ExceptRequestException_raise(log) == Outcome(<<>>, "RequestException", log \o <<"error">>)

\* except requests.exceptions.RequestException
ExceptRequestException(log) == Outcome(<<>>, "none", log \o <<"error">>)

\* the tail of the try block without the delay
Throttle_none(log) == log

\* time.sleep(0.5)
Throttle(log) == log \o <<"sleep">>

search_repositories(query, sort, per_page, resp, jsonErr) ==
    IF resp.kind = "network" THEN ExceptRequestException(<<>>)
    ELSE
    LET remaining == resp.remaining
        log1 == IF Truthy(remaining) THEN <<"remaining">> ELSE <<>>
    IN  IF raise_for_status(resp.status) THEN ExceptHTTPError(resp.status, log1)
        ELSE IF resp.body.kind = "not_json"
        THEN IF jsonErr = "RequestException"
             THEN ExceptRequestException(log1)
             ELSE Outcome(<<>>, "ValueError", log1)
        ELSE IF Truthy(remaining) /\ ~IsInt(remaining[1])
        THEN Outcome(<<>>, "ValueError", log1)
        ELSE
        LET log2 == IF LowRemaining(remaining) THEN log1 \o <<"warning">> ELSE log1
            log3 == Throttle(log2)
        IN  IF resp.body.kind = "not_object"
            THEN Outcome(<<>>, "AttributeError", log3)
            ELSE Outcome(Get(resp.body.data, "items", <<>>), "none", log3)

----------------------------------------------------------------------------
(* check_rate_limit *)

RateLimitRequest == [url |-> "/rate_limit", params |-> None]

\* bodies of the rate-limit endpoint: "rate" missing, "rate" with a numeric
\* reset, "rate" with a null reset
RateBodies ==
    {NotJson, NotObject, Object([resources |-> "r"]),
     Object([rate |-> [remaining |-> 59, limit |-> 60, reset |-> Some(1700000000)]]),
     Object([rate |-> [remaining |-> 59, limit |-> 60, reset |-> None]])}

RateResponses == {NetworkFailure} \cup Responses(Statuses, {None}, RateBodies)

check_rate_limit(resp, jsonErr) ==
    IF resp.kind = "network" THEN Outcome(<<>>, "none", <<"error">>)
    ELSE IF raise_for_status(resp.status) THEN Outcome(<<>>, "none", <<"error">>)
    ELSE IF resp.body.kind = "not_json"
    THEN IF jsonErr = "RequestException"
         THEN Outcome(<<>>, "none", <<"error">>)
         ELSE Outcome(<<>>, "ValueError", <<>>)
    ELSE IF resp.body.kind = "not_object" THEN Outcome(<<>>, "AttributeError", <<>>)
    ELSE
    LET core == Get(resp.body.data, "rate", EmptyDict)
        reset == Get(core, "reset", Some(0))
    IN  \* datetime.fromtimestamp(None) raises TypeError
        IF reset = None THEN Outcome(<<>>, "TypeError", <<"rate_limit">>)
        ELSE Outcome(<<>>, "none", <<"rate_limit", "reset_at">>)

----------------------------------------------------------------------------
(* the four queries *)

PopularQuery == <<"stars:>5000 topic:machine-learning">>
TrendingQuery == <<"pushed:>", "date_7_days_ago", " stars:>1000 topic:ai">>
NewQuery == <<"created:>", "date_30_days_ago", " stars:>50">>
\* f"{keywords[0]} stars:>1000"
CategoryQuery(keywords) == <<keywords[1], " stars:>1000">>

NumCategories == Len(CATEGORIES)

\* the fetch of one report kind: the search call and the formatted records
Fetched(r) == [r |-> r, repos |-> IF r.raised = "none" THEN FormatAll(r.result) ELSE <<>>]

get_popular_repos(resp, jsonErr) ==
    Fetched(search_repositories(PopularQuery, "stars", 50, resp, jsonErr))

get_trending_repos(resp, jsonErr) ==
    Fetched(search_repositories(TrendingQuery, "stars", 50, resp, jsonErr))

get_new_repos(resp, jsonErr) ==
    Fetched(search_repositories(NewQuery, "stars", 50, resp, jsonErr))

\* one iteration of get_category_repos' loop, for the i-th category
get_category_repos_iter(i, resp, jsonErr) ==
    Fetched(search_repositories(CategoryQuery(CATEGORIES[i].keywords), "stars", 20, resp, jsonErr))

----------------------------------------------------------------------------
(* save_json *)

DefaultMetadata == [updated_at |-> "now", source |-> "GitHub API",
                    api_url |-> "https://api.github.com/search/repositories"]

\* the envelope save_json serialises; metadata is an Optional[dict]
Envelope(data, metadata) ==
    [metadata |-> IF metadata # None THEN metadata[1] ELSE DefaultMetadata,
     repositories |-> data]

\* states of a file on disk
Prior == [state |-> "prior", content |-> <<>>]
Truncated == [state |-> "truncated", content |-> <<>>]
Written(output) == [state |-> "written", content |-> <<output>>]

\* how a write can end: completed; failed before the file was opened
\* (makedirs or open raised); failed after open() truncated the file
WriteOutcomes == {"ok", "error_before_open", "error_after_open"}

\* save_json that removes the snapshots already written when the write fails
save_json_rollback(d, data, filepath, metadata, outcome) ==
    CASE outcome = "ok" -> [d EXCEPT ![filepath] = Written(Envelope(data, metadata))]
      [] OTHER -> [f \in Files |-> Truncated]

save_json(d, data, filepath, metadata, outcome) ==
    CASE outcome = "ok" -> [d EXCEPT ![filepath] = Written(Envelope(data, metadata))]
      [] outcome = "error_before_open" -> d
      [] outcome = "error_after_open" -> [d EXCEPT ![filepath] = Truncated]

----------------------------------------------------------------------------
(* metadata built by main *)

\* len(category_repos) in place of the sum of the lengths
SumLens_keys(pairs) == Len(pairs)

RECURSIVE SumLens(_)
\* sum(len(repos) for repos in category_repos.values())
SumLens(pairs) == IF Len(pairs) = 0 THEN 0
                  ELSE Len(pairs[1][2]) + SumLens(Tail(pairs))

\* list(category_repos.keys())
Keys(pairs) == [i \in 1..Len(pairs) |-> pairs[i][1]]

\* the mapping written as "repositories" of the categories snapshot
AsDict(pairs) == pairs

ListMetadata(description, repos) ==
    [updated_at |-> "update_time", source |-> "GitHub API",
     api_url |-> "https://api.github.com/search/repositories",
     description |-> description, count |-> Len(repos)]

CategoriesMetadata(pairs) ==
    [updated_at |-> "update_time", source |-> "GitHub API",
     api_url |-> "https://api.github.com/search/repositories",
     description |-> "Repositories organized by AI/ML categories",
     categories |-> Keys(pairs), count |-> SumLens(pairs)]

----------------------------------------------------------------------------
(* main *)

\* responses the search endpoint gives within a run
RunHeaders == {None, Some(<<"5">>), Some(<<"x">>)}
RunResponses ==
    {NetworkFailure}
    \cup Responses({403, 500}, RunHeaders, {NotJson})
    \cup Responses({200}, RunHeaders, Bodies({SparseRecord}, MaxItems))

\* the items a response carries
ItemsOf(resp) == IF resp.body.kind = "object" THEN Get(resp.body.data, "items", <<>>) ELSE <<>>

\* the responses the endpoint can still give, the run having received n items
Answers(n) == {resp \in RunResponses : n + Len(ItemsOf(resp)) <= MaxTotalItems}

\* what kind of answer a search request got
ResponseKind(resp) ==
    CASE resp.kind = "network" -> "network"
      [] resp.kind = "http" /\ resp.status = 403 -> "http_403"
      [] resp.kind = "http" /\ resp.status # 403 /\ raise_for_status(resp.status) -> "http_error"
      [] resp.kind = "http" /\ ~raise_for_status(resp.status)
         /\ resp.body.kind = "object"
         /\ (Truthy(resp.remaining) => IsInt(resp.remaining[1])) -> "success"
      [] OTHER -> "malformed"

NoCall == [stage |-> "none", kind |-> "none", outcome |-> Outcome(<<>>, "none", <<>>),
           prev_success |-> FALSE, gap |-> 0]

\* the record of a search call: its stage, the kind of answer, the outcome,
\* whether the previous search call succeeded and the delays waited since that
\* call's GET
CallRecord(stage, resp, r) ==
    [stage |-> stage, kind |-> ResponseKind(resp), outcome |-> r,
     prev_success |-> (last.kind = "success"), gap |-> Count(last.outcome.log, "sleep")]

\* for category, keywords in CATEGORIES.items(): stop one category early
MoreCategories_short(pairs) == Len(pairs) < NumCategories - 1

\* for category, keywords in CATEGORIES.items()
MoreCategories(pairs) == Len(pairs) < NumCategories

RECURSIVE Flatten(_)
\* all records of a mapping, category after category
Flatten(pairs) == IF Len(pairs) = 0 THEN <<>> ELSE pairs[1][2] \o Flatten(Tail(pairs))

\* the items received so far in the run
Received ==
    Len(popular_repos) + Len(trending_repos) + Len(new_repos) + Len(Flatten(category_repos))

Init ==
    /\ pc = "banner"
    /\ exit_status = "running"
    /\ json_error \in JsonErrors
    /\ requests = <<>>
    /\ disk = [f \in Files |-> Prior]
    /\ popular_repos = <<>>
    /\ trending_repos = <<>>
    /\ new_repos = <<>>
    /\ category_repos = <<>>
    /\ last = NoCall
    /\ marker = FALSE
    /\ summary = FALSE
    /\ call = <<>>
    /\ fmt = <<>>

\* an exception leaves main outside the try block: nothing is logged
Escape ==
    /\ exit_status' = "failure"
    /\ UNCHANGED <<pc, marker, summary>>

\* except Exception as e: log the failure marker, raise
Except ==
    /\ exit_status' = "failure"
    /\ marker' = TRUE
    /\ UNCHANGED <<pc, summary>>

Banner ==
    /\ exit_status = "running" /\ pc = "banner"
    /\ pc' = "check_rate_limit"
    /\ UNCHANGED <<exit_status, json_error, requests, disk, popular_repos, trending_repos,
                   new_repos, category_repos, last, marker, summary, call, fmt>>

CheckRateLimit ==
    /\ exit_status = "running" /\ pc = "check_rate_limit"
    /\ \E resp \in RateResponses :
          LET r == check_rate_limit(resp, json_error)
          IN  /\ requests' = Append(requests, RateLimitRequest)
              /\ IF r.raised # "none" THEN Escape
                 ELSE /\ pc' = "popular"
                      /\ UNCHANGED <<exit_status, marker, summary>>
    /\ UNCHANGED <<json_error, disk, popular_repos, trending_repos, new_repos,
                   category_repos, last, call, fmt>>

FetchPopular ==
    /\ exit_status = "running" /\ pc = "popular"
    /\ \E resp \in Answers(Received) :
          LET f == get_popular_repos(resp, json_error)
          IN  /\ requests' = Append(requests, SearchRequest(PopularQuery, "stars", 50))
              /\ last' = CallRecord("popular", resp, f.r)
              /\ IF f.r.raised # "none" THEN Except /\ UNCHANGED popular_repos
                 ELSE /\ popular_repos' = f.repos
                      /\ pc' = "save_popular"
                      /\ UNCHANGED <<exit_status, marker, summary>>
    /\ UNCHANGED <<json_error, disk, trending_repos, new_repos, category_repos, call, fmt>>

SavePopular ==
    /\ exit_status = "running" /\ pc = "save_popular"
    /\ \E w \in WriteOutcomes :
          /\ disk' = save_json(disk, popular_repos, POPULAR_FILE,
                     Some(ListMetadata("Popular repositories with LLM/AI/ML/NLP focus",
                                       popular_repos)), w)
          /\ IF w # "ok" THEN Except
             ELSE pc' = "trending" /\ UNCHANGED <<exit_status, marker, summary>>
    /\ UNCHANGED <<json_error, requests, popular_repos, trending_repos, new_repos,
                   category_repos, last, call, fmt>>

FetchTrending ==
    /\ exit_status = "running" /\ pc = "trending"
    /\ \E resp \in Answers(Received) :
          LET f == get_trending_repos(resp, json_error)
          IN  /\ requests' = Append(requests, SearchRequest(TrendingQuery, "stars", 50))
              /\ last' = CallRecord("trending", resp, f.r)
              /\ IF f.r.raised # "none" THEN Except /\ UNCHANGED trending_repos
                 ELSE /\ trending_repos' = f.repos
                      /\ pc' = "save_trending"
                      /\ UNCHANGED <<exit_status, marker, summary>>
    /\ UNCHANGED <<json_error, disk, popular_repos, new_repos, category_repos, call, fmt>>

SaveTrending ==
    /\ exit_status = "running" /\ pc = "save_trending"
    /\ \E w \in WriteOutcomes :
          /\ disk' = save_json(disk, trending_repos, TRENDING_FILE,
                     Some(ListMetadata("Trending repositories in the last 7 days",
                                       trending_repos)), w)
          /\ IF w # "ok" THEN Except
             ELSE pc' = "new" /\ UNCHANGED <<exit_status, marker, summary>>
    /\ UNCHANGED <<json_error, requests, popular_repos, trending_repos, new_repos,
                   category_repos, last, call, fmt>>

FetchNew ==
    /\ exit_status = "running" /\ pc = "new"
    /\ \E resp \in Answers(Received) :
          LET f == get_new_repos(resp, json_error)
          IN  /\ requests' = Append(requests, SearchRequest(NewQuery, "stars", 50))
              /\ last' = CallRecord("new", resp, f.r)
              /\ IF f.r.raised # "none" THEN Except /\ UNCHANGED new_repos
                 ELSE /\ new_repos' = f.repos
                      /\ pc' = "save_new"
                      /\ UNCHANGED <<exit_status, marker, summary>>
    /\ UNCHANGED <<json_error, disk, popular_repos, trending_repos, category_repos, call, fmt>>

SaveNew ==
    /\ exit_status = "running" /\ pc = "save_new"
    /\ \E w \in WriteOutcomes :
          /\ disk' = save_json(disk, new_repos, NEW_FILE,
                     Some(ListMetadata("Recently created repositories (last 30 days)",
                                       new_repos)), w)
          /\ IF w # "ok" THEN Except
             ELSE pc' = "categories" /\ UNCHANGED <<exit_status, marker, summary>>
    /\ UNCHANGED <<json_error, requests, popular_repos, trending_repos, new_repos,
                   category_repos, last, call, fmt>>

\* one iteration of the loop of get_category_repos
FetchCategory ==
    /\ exit_status = "running" /\ pc = "categories"
    /\ MoreCategories(category_repos)
    /\ LET i == Len(category_repos) + 1
       IN  \E resp \in Answers(Received) :
          LET f == get_category_repos_iter(i, resp, json_error)
          IN  /\ requests' = Append(requests,
                                SearchRequest(CategoryQuery(CATEGORIES[i].keywords), "stars", 20))
              /\ last' = CallRecord("categories", resp, f.r)
              /\ IF f.r.raised # "none" THEN Except /\ UNCHANGED category_repos
                 ELSE /\ category_repos' = Append(category_repos, <<CATEGORIES[i].name, f.repos>>)
                      /\ UNCHANGED <<pc, exit_status, marker, summary>>
    /\ UNCHANGED <<json_error, disk, popular_repos, trending_repos, new_repos, call, fmt>>

\* get_category_repos returns; main saves the mapping
SaveCategories ==
    /\ exit_status = "running" /\ pc = "categories"
    /\ ~MoreCategories(category_repos)
    /\ \E w \in WriteOutcomes :
          /\ disk' = save_json(disk, AsDict(category_repos), CATEGORIES_FILE,
                     Some(CategoriesMetadata(category_repos)), w)
          /\ IF w # "ok" THEN Except
             ELSE pc' = "summary" /\ UNCHANGED <<exit_status, marker, summary>>
    /\ UNCHANGED <<json_error, requests, popular_repos, trending_repos, new_repos,
                   category_repos, last, call, fmt>>

Summary ==
    /\ exit_status = "running" /\ pc = "summary"
    /\ summary' = TRUE
    /\ exit_status' = "success"
    /\ UNCHANGED <<pc, json_error, requests, disk, popular_repos, trending_repos, new_repos,
                   category_repos, last, marker, call, fmt>>

Next ==
    \/ Banner
    \/ CheckRateLimit
    \/ FetchPopular
    \/ SavePopular
    \/ FetchTrending
    \/ SaveTrending
    \/ FetchNew
    \/ SaveNew
    \/ FetchCategory
    \/ SaveCategories
    \/ Summary

Spec == Init /\ [][Next]_vars

\* main is one sequential thread: a step that can be taken is taken
FairSpec == Spec /\ WF_vars(Next)

----------------------------------------------------------------------------
(* one call of search_repositories *)

Queries == {PopularQuery, CategoryQuery(CATEGORIES[1].keywords)}
Sorts == {"stars", "updated"}
PageSizes == {20, 50}

Headers == {None} \cup {Some(h) : h \in SeqsUpTo(Chars, MaxHeaderLen)}
CallResponses ==
    {NetworkFailure}
    \cup Responses(Statuses, Headers, Bodies({FullRecord, SparseRecord}, MaxCallItems))

InitSearch ==
    /\ pc = "search_repositories"
    /\ exit_status = "running"
    /\ json_error \in JsonErrors
    /\ requests = <<>>
    /\ disk = [f \in Files |-> Prior]
    /\ popular_repos = <<>>
    /\ trending_repos = <<>>
    /\ new_repos = <<>>
    /\ category_repos = <<>>
    /\ last = NoCall
    /\ marker = FALSE
    /\ summary = FALSE
    /\ \E q \in Queries, so \in Sorts, pp \in PageSizes, resp \in CallResponses :
          call = [query |-> q, sort |-> so, per_page |-> pp, resp |-> resp,
                  returned |-> FALSE, outcome |-> Outcome(<<>>, "none", <<>>)]
    /\ fmt = <<>>

SearchCall ==
    /\ pc = "search_repositories"
    /\ pc' = "returned"
    /\ requests' = Append(requests, SearchRequest(call.query, call.sort, call.per_page))
    /\ call' = [call EXCEPT !.returned = TRUE,
                            !.outcome = search_repositories(call.query, call.sort, call.per_page,
                                                            call.resp, json_error)]
    /\ UNCHANGED <<exit_status, json_error, disk, popular_repos, trending_repos, new_repos,
                   category_repos, last, marker, summary, fmt>>

NextSearch == SearchCall

SpecSearch == InitSearch /\ [][NextSearch]_vars

----------------------------------------------------------------------------
(* one call of format_repo_data *)

RawRecords == {RawRecord(S) : S \in SUBSET SourceFields}
Links == {None} \cup {Some(l) : l \in SeqsUpTo({"a"}, MaxLinkLen)}

InitFormat ==
    /\ pc = "format_repo_data"
    /\ exit_status = "running"
    /\ json_error = "RequestException"
    /\ requests = <<>>
    /\ disk = [f \in Files |-> Prior]
    /\ popular_repos = <<>>
    /\ trending_repos = <<>>
    /\ new_repos = <<>>
    /\ category_repos = <<>>
    /\ last = NoCall
    /\ marker = FALSE
    /\ summary = FALSE
    /\ call = <<>>
    /\ \E repo \in RawRecords, link \in Links :
          fmt = [repo |-> repo, affiliate_link |-> link, returned |-> FALSE, data |-> EmptyDict]

FormatCall ==
    /\ pc = "format_repo_data"
    /\ pc' = "returned"
    /\ fmt' = [fmt EXCEPT !.returned = TRUE,
                          !.data = format_repo_data(fmt.repo, fmt.affiliate_link)]
    /\ UNCHANGED <<exit_status, json_error, requests, disk, popular_repos, trending_repos,
                   new_repos, category_repos, last, marker, summary, call>>

NextFormat == FormatCall

SpecFormat == InitFormat /\ [][NextFormat]_vars

----------------------------------------------------------------------------
(* Properties *)

FetchFailures == {"http_403", "http_error", "network"}

\* the snapshot written at a path
Snapshot(f) == disk[f].content[1]
IsWritten(f) == disk[f].state = "written"
AllWritten == \A f \in Files : IsWritten(f)

\* C1: every snapshot on disk has metadata.count equal to the number of records
\* in its repositories value (list length; for categories the total over all keys)
C1_CountEqualsRecords ==
    \A f \in Files :
        IsWritten(f) =>
            Snapshot(f).metadata.count =
                IF f = CATEGORIES_FILE THEN Len(Flatten(Snapshot(f).repositories))
                ELSE Len(Snapshot(f).repositories)

\* a categories snapshot with records under two different keys
C1_Witness ==
    /\ AllWritten
    /\ Snapshot(CATEGORIES_FILE).metadata.count = 2
    /\ \E i, j \in 1..NumCategories :
          /\ i # j
          /\ Len(Snapshot(CATEGORIES_FILE).repositories[i][2]) = 1
          /\ Len(Snapshot(CATEGORIES_FILE).repositories[j][2]) = 1

\* C2: on HTTP 403 search_repositories returns an empty list and raises nothing,
\* whatever the arguments, the headers and the body
C2_Http403ReturnsEmpty ==
    (call.returned /\ call.resp.kind = "http" /\ call.resp.status = 403)
        => (call.outcome.raised = "none" /\ call.outcome.result = <<>>)

\* a 403 with an unparsable header and a non-JSON body was handled
C2_Witness ==
    /\ call.returned
    /\ call.resp.kind = "http" /\ call.resp.status = 403
    /\ call.resp.remaining = Some(<<"x">>)
    /\ call.resp.body = NotJson
    /\ call.outcome.log = <<"remaining", "rate_limit_exceeded", "response_text">>

\* C3: on a successful status with a malformed or non-JSON body
\* search_repositories returns an empty list and raises nothing
C3_MalformedBodyReturnsEmpty ==
    (call.returned /\ call.resp.kind = "http" /\ ~raise_for_status(call.resp.status)
        /\ call.resp.body.kind \in {"not_json", "not_object"})
        => (call.outcome.raised = "none" /\ call.outcome.result = <<>>)

\* main stopped on an exception raised by a search call (not by a write)
AbortedInFetch ==
    /\ exit_status = "failure"
    /\ \/ pc \in {"popular", "trending", "new"}
       \/ pc = "categories" /\ Len(category_repos) < 7

\* the list the most recent search call contributed to main's data
Contribution ==
    CASE last.stage = "popular" -> popular_repos
      [] last.stage = "trending" -> trending_repos
      [] last.stage = "new" -> new_repos
      [] last.stage = "categories" /\ Len(category_repos) > 0 ->
            category_repos[Len(category_repos)][2]
      [] OTHER -> <<>>

\* the file main is about to write, when it is at a write
FileAtSave ==
    CASE pc = "save_popular" -> <<"assets/popular.json">>
      [] pc = "save_trending" -> <<"assets/trending.json">>
      [] pc = "save_new" -> <<"assets/new.json">>
      [] pc = "categories" /\ Len(category_repos) = 7 -> <<"assets/categories.json">>
      [] OTHER -> <<>>

\* what stopped the run is not a fetch failure: the rate-limit check raised, a
\* search call raised on a malformed response, or a write failed
AbortNotByFetchFailure ==
    \/ pc = "check_rate_limit"
    \/ AbortedInFetch /\ last.kind = "malformed" /\ last.outcome.raised # "none"
    \/ FileAtSave # <<>> /\ disk[FileAtSave[1]].state # "written"

\* C4: a search answered by success, 403, another HTTP error or a network failure
\* never aborts the run, a failed one contributes an empty list, and the run
\* ends: in success with all four snapshots written, unless something that is
\* not a fetch failure (a write, a malformed response) aborted it
C4_FetchFailureNeverAborts ==
    /\ [](exit_status = "failure" => AbortNotByFetchFailure)
    /\ [](last.kind \in FetchFailures =>
             last.outcome.result = <<>> /\ last.outcome.raised = "none" /\ Contribution = <<>>)
    /\ <>(exit_status = "failure" \/ (exit_status = "success" /\ AllWritten /\ summary))

\* a run that ended in success although its last search got a network failure
C4_Witness ==
    /\ exit_status = "success"
    /\ AllWritten
    /\ last.kind = "network"
    /\ popular_repos = <<>>
    /\ Len(category_repos) = 7

\* C5: every exception raised in main's sequence is logged with the failure
\* marker before the run ends in failure, and the summary is not logged
C5_ExceptionLoggedAndReraised ==
    exit_status = "failure" => (marker /\ ~summary)

\* the stage main is in: 0 before the first, 5 after the last
StageOf(p) ==
    CASE p \in {"banner", "check_rate_limit"} -> 0
      [] p \in {"popular", "save_popular"} -> 1
      [] p \in {"trending", "save_trending"} -> 2
      [] p \in {"new", "save_new"} -> 3
      [] p = "categories" -> 4
      [] OTHER -> 5

\* the snapshot files in the order popular, trending, new, categories
FileOrder == <<"assets/popular.json", "assets/trending.json", "assets/new.json",
               "assets/categories.json">>

\* the data of this run a stage hands to the writer
DataOf(j) ==
    CASE j = 1 -> popular_repos [] j = 2 -> trending_repos [] j = 3 -> new_repos
      [] OTHER -> category_repos

\* C6: files are written in the order popular, trending, new, categories; when
\* the run has aborted in stage k, the snapshots of the stages before k are on
\* disk complete with this run's data and those of the stages after k are untouched
C6_OrderedNoRollback ==
    /\ \A i, j \in 1..4 :
          (i < j /\ disk[FileOrder[j]] # Prior) => disk[FileOrder[i]].state = "written"
    /\ exit_status = "failure" =>
          \A j \in 1..4 :
              /\ j < StageOf(pc) =>
                    /\ disk[FileOrder[j]].state = "written"
                    /\ disk[FileOrder[j]].content[1].repositories = DataOf(j)
              /\ j > StageOf(pc) => disk[FileOrder[j]] = Prior

\* the write of new.json failed half-way; popular.json and trending.json stay
C6_Witness ==
    /\ exit_status = "failure"
    /\ pc = "save_new"
    /\ disk["assets/new.json"] = Truncated
    /\ disk["assets/popular.json"].state = "written"
    /\ Len(disk["assets/popular.json"].content[1].repositories) = 1
    /\ disk["assets/trending.json"].state = "written"
    /\ disk["assets/categories.json"] = Prior

\* the response carries a rate-limit-remaining header whose value is below 10
HeaderBelowThreshold(resp) ==
    /\ resp.remaining # None
    /\ IsInt(resp.remaining[1])
    /\ IntOf(resp.remaining[1]) < 10

\* the same response without its rate-limit-remaining header
WithoutHeader(resp) == [resp EXCEPT !.remaining = None]

\* the call ended the way it ends on the same response without the header
SameAsWithoutHeader ==
    LET r == search_repositories(call.query, call.sort, call.per_page,
                                 WithoutHeader(call.resp), json_error)
    IN  call.outcome.result = r.result /\ call.outcome.raised = r.raised

\* C7 as stated: whenever the header is below 10 the warning is emitted and
\* the call ends as it would without the header
C7_WarningWheneverLow ==
    (call.returned /\ HeaderBelowThreshold(call.resp))
        => (Count(call.outcome.log, "warning") = 1 /\ SameAsWithoutHeader)

\* the status is not an error and the body decodes as JSON
Decoded(resp) == resp.kind = "http" /\ ~raise_for_status(resp.status) /\ resp.body.kind # "not_json"

\* C7 amended: when a response with a non-error status and a JSON body carries
\* a header below 10 the warning is emitted once and the call ends as it would
\* without the header; on an error status or an undecodable body the call also
\* ends as it would without the header but emits no warning
C7_WarningOnDecodedResponse ==
    (call.returned /\ HeaderBelowThreshold(call.resp))
        => /\ SameAsWithoutHeader
           /\ Count(call.outcome.log, "warning") = (IF Decoded(call.resp) THEN 1 ELSE 0)

\* a 200 response with header "5" and one item: warned, item returned
C7_Witness ==
    /\ call.returned
    /\ call.resp.status = 200
    /\ call.resp.remaining = Some(<<"5">>)
    /\ call.outcome.log = <<"remaining", "warning", "sleep">>
    /\ Len(call.outcome.result) = 1

\* C8: a successful search call waits the delay exactly once, as its last step
\* before returning the items; a search request that follows a successful one
\* was issued after exactly that delay
C8_DelayOncePerSuccess ==
    /\ last.kind = "success" =>
          /\ last.outcome.raised = "none"
          /\ Count(last.outcome.log, "sleep") = 1
          /\ last.outcome.log[Len(last.outcome.log)] = "sleep"
    /\ last.prev_success => last.gap = 1

\* two successful search calls in a row
C8_Witness ==
    /\ last.stage = "trending"
    /\ last.prev_success
    /\ last.kind = "success"
    /\ Len(last.outcome.result) = 1
    /\ Len(requests) = 3

\* C9 as stated: nine keys, plus affiliate_link exactly when a link was passed
C9_AffiliateIffPassed ==
    fmt.returned =>
        /\ DOMAIN fmt.data = OutputKeys \cup
                (IF fmt.affiliate_link # None THEN {"affiliate_link"} ELSE {})
        /\ Truthy(fmt.affiliate_link) => fmt.data["affiliate_link"] = fmt.affiliate_link[1]

\* C9 amended: nine keys, plus affiliate_link exactly when a non-empty link was
\* passed; the field then holds the link; without a link, or with an empty
\* one, the key is absent
C9_AffiliateIffNonEmpty ==
    fmt.returned =>
        /\ DOMAIN fmt.data = OutputKeys \cup
                (IF fmt.affiliate_link # None /\ fmt.affiliate_link[1] # <<>>
                 THEN {"affiliate_link"} ELSE {})
        /\ Cardinality(DOMAIN fmt.data \ {"affiliate_link"}) = 9
        /\ (fmt.affiliate_link # None /\ fmt.affiliate_link[1] # <<>>)
              => fmt.data["affiliate_link"] = fmt.affiliate_link[1]

\* an empty link passed with a record that has no field at all
C9_Witness ==
    /\ fmt.returned
    /\ fmt.affiliate_link = Some(<<>>)
    /\ DOMAIN fmt.repo = {}
    /\ "affiliate_link" \notin DOMAIN fmt.data
    /\ fmt.data["name"] = ""

\* the requests of a complete run
ExpectedRequests == <<
    [url |-> "/rate_limit", params |-> <<>>],
    [url |-> "/search/repositories",
     params |-> <<[q |-> <<"stars:>5000 topic:machine-learning">>,
                   sort |-> "stars", order |-> "desc", per_page |-> 50]>>],
    [url |-> "/search/repositories",
     params |-> <<[q |-> <<"pushed:>", "date_7_days_ago", " stars:>1000 topic:ai">>,
                   sort |-> "stars", order |-> "desc", per_page |-> 50]>>],
    [url |-> "/search/repositories",
     params |-> <<[q |-> <<"created:>", "date_30_days_ago", " stars:>50">>,
                   sort |-> "stars", order |-> "desc", per_page |-> 50]>>],
    [url |-> "/search/repositories",
     params |-> <<[q |-> <<"llm", " stars:>1000">>,
                   sort |-> "stars", order |-> "desc", per_page |-> 20]>>],
    [url |-> "/search/repositories",
     params |-> <<[q |-> <<"machine learning", " stars:>1000">>,
                   sort |-> "stars", order |-> "desc", per_page |-> 20]>>],
    [url |-> "/search/repositories",
     params |-> <<[q |-> <<"nlp", " stars:>1000">>,
                   sort |-> "stars", order |-> "desc", per_page |-> 20]>>],
    [url |-> "/search/repositories",
     params |-> <<[q |-> <<"ai tools", " stars:>1000">>,
                   sort |-> "stars", order |-> "desc", per_page |-> 20]>>],
    [url |-> "/search/repositories",
     params |-> <<[q |-> <<"data science", " stars:>1000">>,
                   sort |-> "stars", order |-> "desc", per_page |-> 20]>>],
    [url |-> "/search/repositories",
     params |-> <<[q |-> <<"computer vision", " stars:>1000">>,
                   sort |-> "stars", order |-> "desc", per_page |-> 20]>>],
    [url |-> "/search/repositories",
     params |-> <<[q |-> <<"mlops", " stars:>1000">>,
                   sort |-> "stars", order |-> "desc", per_page |-> 20]>> ] >>

CategoryNames == <<"LLM and Generative AI", "Machine Learning", "Natural Language Processing",
                   "AI Tools", "Data Science", "Computer Vision", "MLOps">>

\* C10: the requests issued are always a prefix of the fixed sequence of 11 (none
\* retried, none skipped); a run that ends in success has issued all 11, and its
\* categories snapshot has one key per category, in table order
C10_FixedRequestSequence ==
    /\ Len(requests) <= 11
    /\ requests = SubSeq(ExpectedRequests, 1, Len(requests))
    /\ exit_status = "success" =>
          /\ requests = ExpectedRequests
          /\ Len(Snapshot(CATEGORIES_FILE).repositories) = 7
          /\ \A i \in 1..7 : Snapshot(CATEGORIES_FILE).repositories[i][1] = CategoryNames[i]
          /\ Snapshot(CATEGORIES_FILE).metadata.categories = CategoryNames

\* a complete run whose last category fetch was rate-limited
C10_Witness ==
    /\ exit_status = "success"
    /\ Len(requests) = 11
    /\ last.kind = "http_403"
    /\ Snapshot(CATEGORIES_FILE).repositories[7] = <<"MLOps", <<>> >>

====
